---- MODULE Spec2Model ----
(***************************************************************************)
(* Model of the Prometheus mock exporter (src/exporter.py): the text-format *)
(* parser, the per-metric statistics, the corpus scanner with its throttle, *)
(* the counter state store and the synthetic value generator.               *)
(*                                                                          *)
(* Representation                                                           *)
(*   - a Python str that the code only compares (metric name, type, help)   *)
(*     is a TLA+ string; a str that the code builds or splits (label names, *)
(*     label values, label keys) is a sequence of one-character strings;    *)
(*   - a dict is a function whose DOMAIN is the set of its keys; a labels   *)
(*     dict, whose insertion order the code iterates, is a sequence of      *)
(*     <<name, value>> pairs with distinct names;                           *)
(*   - Optional[float] is a sequence: <<>> is None, <<v>> is the value v;   *)
(*   - sample values are integers; mean_value is the exact rational         *)
(*     <<sum, n>>; std_dev is held by its exact square, the rational        *)
(*     <<n*sum(x^2) - sum(x)^2, n*(n-1)>> (<<0, 1>> for a single sample);   *)
(*   - a random draw is an input r in 0..MaxDraw of the operation.          *)
(***************************************************************************)
EXTENDS Integers, Sequences, FiniteSets, TLC

(***************************************************************************)
(* Bounds of the model                                                      *)
(***************************************************************************)
\* largest random input; random.random() is read as r / MaxDraw
MaxDraw == 1
\* number of files a directory listing holds at most
MaxFiles == 2
\* generate_metrics is not called once a counter has passed this value
MaxCounter == 3
\* the clock stops here
MaxTime == 180
\* number of request threads of the server
NumThreads == 2
\* number of requests one thread serves
MaxRequests == 1
\* number of labels of a label set
MaxLabels == 2
\* length of a label value
MaxValueLen == 2

(***************************************************************************)
(* Strings as sequences of characters                                       *)
(***************************************************************************)
\* the characters of the model in code-point order (Python compares str by
\* code point): ',' 44 < '1' 49 < '2' 50 < '=' 61 < 'a' 97 < 'b' 98
Alphabet == <<",", "1", "2", "=", "a", "b">>

CharRank(c) == CHOOSE i \in 1..Len(Alphabet) : Alphabet[i] = c

RECURSIVE StrLess(_, _)
\* s < t for Python str
StrLess(s, t) ==
  IF t = <<>> THEN FALSE
  ELSE IF s = <<>> THEN TRUE
  ELSE IF Head(s) = Head(t) THEN StrLess(Tail(s), Tail(t))
  ELSE CharRank(Head(s)) < CharRank(Head(t))

None == <<>>

Some(v) == <<v>>

RECURSIVE SeqSum(_)
SeqSum(s) == IF s = <<>> THEN 0 ELSE Head(s) + SeqSum(Tail(s))

SeqMin(s) == CHOOSE v \in {s[i] : i \in 1..Len(s)} : \A j \in 1..Len(s) : v <= s[j]

SeqMax(s) == CHOOSE v \in {s[i] : i \in 1..Len(s)} : \A j \in 1..Len(s) : v >= s[j]

\* equality of two rationals <<num, den>> with positive denominators
RatEq(p, q) == p[1] * q[2] = q[1] * p[2]

(***************************************************************************)
(* MetricSample, MetricDefinition                                           *)
(***************************************************************************)
MetricSample(value, labels) == [value |-> value, labels |-> labels]

\* statistics.mean(values)
Mean(values) == <<SeqSum(values), Len(values)>>

\* statistics.stdev(values) squared, for len(values) > 1
Variance(values) ==
  LET n == Len(values)
      sq == [i \in 1..n |-> values[i] * values[i]]
  IN  <<n * SeqSum(sq) - SeqSum(values) * SeqSum(values), n * (n - 1)>>

\* str.lower() on the type strings of the model
Lower(s) ==
  IF s \in {"Counter", "COUNTER"} THEN "counter"
  ELSE IF s \in {"Gauge", "GAUGE"} THEN "gauge"
  ELSE s

\* MetricDefinition.__post_init__: the statistics are computed from the
\* samples the definition holds now; with no samples they keep their values
PostInit(m) ==
  LET values == [i \in 1..Len(m.samples) |-> m.samples[i].value]
      withStats ==
        IF m.samples # <<>>
        THEN [m EXCEPT !.min_value = Some(SeqMin(values)),
                       !.max_value = Some(SeqMax(values)),
                       !.mean_value = Some(Mean(values)),
                       !.std_dev = IF Len(values) > 1 THEN Some(Variance(values))
                                   ELSE Some(<<0, 1>>)]
        ELSE m
  IN  [withStats EXCEPT !.is_counter = (Lower(m.metric_type) = "counter")]

\* the dataclass constructor: the fields' defaults, then __post_init__
MetricDefinition(name, metric_type, help_text, samples) ==
  PostInit([name |-> name, metric_type |-> metric_type, help_text |-> help_text,
            samples |-> samples, min_value |-> None, max_value |-> None,
            mean_value |-> None, std_dev |-> None, is_counter |-> FALSE])

\* `metric.std_dev and metric.std_dev > 0`
StdDevPositive(m) == m.std_dev # None /\ m.std_dev[1][1] > 0

(***************************************************************************)
(* PrometheusFileParser.parse                                               *)
(* A file is the sequence of its lines, each already matched against the   *)
(* patterns of lines 77, 92 and 110-116:                                    *)
(*   kind "HELP"   `# HELP <name> <text>`  (text "" when the text is absent) *)
(*   kind "TYPE"   `# TYPE <name> <text>`                                   *)
(*   kind "SAMPLE" a line that matches the sample pattern                   *)
(*   kind "OTHER"  an empty line, another comment, a line that matches none *)
(***************************************************************************)
Line(kind, name, text, labels, value) ==
  [kind |-> kind, name |-> name, text |-> text, labels |-> labels, value |-> value]

HelpLine(name, text) == Line("HELP", name, text, <<>>, 0)

TypeLine(name, text) == Line("TYPE", name, text, <<>>, 0)

SampleLine(name, labels, value) == Line("SAMPLE", name, "", labels, value)

OtherLine == Line("OTHER", "", "", <<>>, 0)

\* d[k] = v on a dict
Put(d, k, v) == [x \in DOMAIN d \cup {k} |-> IF x = k THEN v ELSE d[x]]

EmptyDict == [x \in {} |-> 0]

\* one iteration of the loop over the lines (lines 73-140)
ParseLine(metrics, line) ==
  IF line.kind = "HELP" THEN
    IF line.text = "" THEN metrics
    ELSE IF line.name \notin DOMAIN metrics
    THEN Put(metrics, line.name, MetricDefinition(line.name, "", line.text, <<>>))
    ELSE [metrics EXCEPT ![line.name].help_text = line.text]
  ELSE IF line.kind = "TYPE" THEN
    IF line.text = "" THEN metrics
    ELSE IF line.name \notin DOMAIN metrics
    THEN Put(metrics, line.name, MetricDefinition(line.name, line.text, "", <<>>))
    ELSE [metrics EXCEPT ![line.name].metric_type = line.text]
  ELSE IF line.kind = "SAMPLE" THEN
    LET known == IF line.name \notin DOMAIN metrics
                 THEN Put(metrics, line.name, MetricDefinition(line.name, "", "", <<>>))
                 ELSE metrics
    IN  [known EXCEPT ![line.name].samples =
                        Append(@, MetricSample(line.value, line.labels))]
  ELSE metrics

RECURSIVE ParseLines(_, _)
ParseLines(metrics, lines) ==
  IF lines = <<>> THEN metrics
  ELSE ParseLines(ParseLine(metrics, Head(lines)), Tail(lines))

\* parse(): the loop over the lines, then __post_init__ on every metric
Parse(lines) ==
  LET parsed == ParseLines(EmptyDict, lines)
  IN  [n \in DOMAIN parsed |-> PostInit(parsed[n])]

(***************************************************************************)
(* Label keys                                                               *)
(***************************************************************************)
RECURSIVE InsertLabel(_, _)
InsertLabel(sorted, item) ==
  IF sorted = <<>> THEN <<item>>
  ELSE IF StrLess(item[1], Head(sorted)[1]) THEN <<item>> \o sorted
  ELSE <<Head(sorted)>> \o InsertLabel(Tail(sorted), item)

\* SortLabels without sorted(): the pairs in the order they were written
UnsortedLabels(labels) == labels

RECURSIVE SortLabels(_)
\* sorted(labels.items()): the names of a dict are distinct, so the pairs
\* are ordered by name
SortLabels(labels) ==
  IF labels = <<>> THEN <<>>
  ELSE InsertLabel(SortLabels(Tail(labels)), Head(labels))

RECURSIVE Join(_, _)
\* sep.join(parts)
Join(sep, parts) ==
  IF parts = <<>> THEN <<>>
  ELSE IF Len(parts) = 1 THEN Head(parts)
  ELSE Head(parts) \o sep \o Join(sep, Tail(parts))

\* _labels_to_key
LabelsToKey(labels) ==
  IF labels = <<>> THEN <<>>
  ELSE LET sorted == SortLabels(labels)
       IN  Join(<<",">>, [i \in 1..Len(sorted) |-> sorted[i][1] \o <<"=">> \o sorted[i][2]])

RECURSIVE Split(_, _, _)
\* str.split(sep) for a one-character separator; cur is the piece being read
Split(s, sep, cur) ==
  IF s = <<>> THEN <<cur>>
  ELSE IF Head(s) = sep THEN <<cur>> \o Split(Tail(s), sep, <<>>)
  ELSE Split(Tail(s), sep, Append(cur, Head(s)))

\* the index of the first occurrence of c in s, 0 when there is none
IndexOf(s, c) ==
  IF \E i \in 1..Len(s) : s[i] = c
  THEN CHOOSE i \in 1..Len(s) : s[i] = c /\ \A j \in 1..(i - 1) : s[j] # c
  ELSE 0

\* labels[k] = v on a labels dict: a known name keeps its position
SetLabel(labels, k, v) ==
  IF \E i \in 1..Len(labels) : labels[i][1] = k
  THEN [i \in 1..Len(labels) |-> IF labels[i][1] = k THEN <<k, v>> ELSE labels[i]]
  ELSE Append(labels, <<k, v>>)

RECURSIVE KeyItems(_, _)
KeyItems(labels, items) ==
  IF items = <<>> THEN labels
  ELSE LET item == Head(items)
           eq == IndexOf(item, "=")
       IN  IF eq = 0 THEN KeyItems(labels, Tail(items))
           ELSE KeyItems(SetLabel(labels, SubSeq(item, 1, eq - 1),
                                  SubSeq(item, eq + 1, Len(item))),
                         Tail(items))

\* _key_to_labels
KeyToLabels(key) ==
  IF key = <<>> THEN <<>>
  ELSE KeyItems(<<>>, Split(key, ",", <<>>))

RECURSIVE GroupKeys(_, _)
\* the keys of label_groups in insertion order (lines 245-250)
GroupKeys(samples, seen) ==
  IF samples = <<>> THEN seen
  ELSE LET key == LabelsToKey(Head(samples).labels)
       IN  GroupKeys(Tail(samples),
                     IF \E i \in 1..Len(seen) : seen[i] = key THEN seen
                     ELSE Append(seen, key))

\* the distinct label keys of a metric's samples
KeySet(m) == {LabelsToKey(m.samples[i].labels) : i \in 1..Len(m.samples)}

(***************************************************************************)
(* The corpus: the files a directory listing can name                       *)
(***************************************************************************)
LabelA1 == <<<<"a">>, <<"1">>>>

LabelA2 == <<<<"a">>, <<"2">>>>

LabelB2 == <<<<"b">>, <<"2">>>>

\* file 1, a.prom:   # TYPE req counter
\*                   req{a="1",b="2"} 1
\*                   not a valid metric line ###
\*                   req{b="2",a="1"} 2
\*                   temp 3
\*                   # TYPE up gauge
\* file 2, b.prom:   # TYPE req Counter
\*                   req{a="2"} 3
\*                   # HELP temp degrees
\*                   # TYPE temp gauge
\*                   temp 5
\*                   temp 6
\*                   up 1
\* file 3, notes.txt
FileLines(f) ==
  CASE f = 1 -> <<TypeLine("req", "counter"),
                  SampleLine("req", <<LabelA1, LabelB2>>, 1),
                  OtherLine,
                  SampleLine("req", <<LabelB2, LabelA1>>, 2),
                  SampleLine("temp", <<>>, 3),
                  TypeLine("up", "gauge")>>
    [] f = 2 -> <<TypeLine("req", "Counter"),
                  SampleLine("req", <<LabelA2>>, 3),
                  HelpLine("temp", "degrees"),
                  TypeLine("temp", "gauge"),
                  SampleLine("temp", <<>>, 5),
                  SampleLine("temp", <<>>, 6),
                  SampleLine("up", <<>>, 1)>>
    [] OTHER -> <<>>

PromFiles == {1, 2}

Files == PromFiles \cup {3}

\* filename.endswith('.prom')
IsProm(f) == f \in PromFiles

\* the metric names of the corpus in sorted order
NameOrder == <<"req", "temp", "up">>

\* os.listdir: every order of at most MaxFiles distinct files
Dirs ==
  {d \in UNION {[1..n -> Files] : n \in 0..MaxFiles} :
     \A i, j \in 1..Len(d) : i # j => d[i] # d[j]}

Draws == 0..MaxDraw

(***************************************************************************)
(* Random draws: r in Draws stands for one value of the generator           *)
(***************************************************************************)
\* the draw of one series on a tape of draws; a series whose value no draw
\* can change has none on the tape
Draw(tape, s) == IF s \in DOMAIN tape THEN tape[s] ELSE 0

\* random.uniform(a, b) = a + (b - a) * random(), random() read as r / MaxDraw
Uniform(a, b, r) == a + ((b - a) * r) \div MaxDraw

\* AbsGauss without abs(): the draw keeps its sign
SignedGauss(r) == 2 * r - MaxDraw

\* abs(random.gauss(0, sigma)) for sigma > 0: any magnitude
AbsGauss(r) == r

\* random.gauss(mu, sigma) for sigma > 0: a value below, near or above mu
Gauss(mu, r) == (mu[1] \div mu[2]) + 2 * (2 * r - MaxDraw)

\* random.uniform(0.1, 1.0) counted in whole units: the draw rounded up
IncLo == 1

IncHi == 1

(***************************************************************************)
(* MetricGenerator.scan_directory                                           *)
(***************************************************************************)
ScanInterval == 60

\* lines 181-186: the metrics of one file merged into new_metrics
MergeFile(new_metrics, file_metrics) ==
  [n \in DOMAIN new_metrics \cup DOMAIN file_metrics |->
     IF n \in DOMAIN new_metrics
     THEN IF n \in DOMAIN file_metrics
          THEN [new_metrics[n] EXCEPT !.samples = @ \o file_metrics[n].samples]
          ELSE new_metrics[n]
     ELSE file_metrics[n]]

RECURSIVE BuildCatalog(_, _, _)
\* lines 174-186: the loop over the listing; open() fails on the files of
\* unreadable, and the exception leaves the loop
BuildCatalog(new_metrics, listing, unreadable) ==
  IF listing = <<>> THEN [ok |-> TRUE, metrics |-> new_metrics]
  ELSE IF ~IsProm(Head(listing))
  THEN BuildCatalog(new_metrics, Tail(listing), unreadable)
  ELSE IF Head(listing) \in unreadable
  THEN [ok |-> FALSE, metrics |-> new_metrics]
  ELSE BuildCatalog(MergeFile(new_metrics, Parse(FileLines(Head(listing)))),
                    Tail(listing), unreadable)

\* SeedMetric with every counter started between zero and the largest value
SeedMetricFromZero(m, seed) ==
  IF m.min_value # None /\ m.max_value # None
  THEN [k \in KeySet(m) |-> Uniform(0, m.max_value[1], Draw(seed, <<m.name, k>>))]
  ELSE EmptyDict

\* lines 194-203: the entries of one metric that is new to counter_state
SeedMetric(m, seed) ==
  IF m.min_value # None /\ m.max_value # None
  THEN [k \in KeySet(m) |-> Uniform(m.min_value[1], m.max_value[1],
                                 Draw(seed, <<m.name, k>>))]
  ELSE EmptyDict

\* SeedCounters building the store anew for the metrics of the new catalog
SeedCountersOfCatalog(metrics, counter_state, seed) ==
  LET counters == {n \in DOMAIN metrics : metrics[n].is_counter}
  IN  [n \in counters |->
         IF n \in DOMAIN counter_state THEN counter_state[n]
         ELSE SeedMetric(metrics[n], seed)]

\* lines 192-203
SeedCounters(metrics, counter_state, seed) ==
  LET fresh == {n \in DOMAIN metrics : metrics[n].is_counter /\ n \notin DOMAIN counter_state}
  IN  [n \in DOMAIN counter_state \cup fresh |->
         IF n \in fresh THEN SeedMetric(metrics[n], seed) ELSE counter_state[n]]

\* the series s has an entry in the counter state store
Stored(store, s) == s[1] \in DOMAIN store /\ s[2] \in DOMAIN store[s[1]]

\* the series (name, label key) of a catalog
Series(metrics) ==
  UNION {{<<n, k>> : k \in KeySet(metrics[n])} : n \in DOMAIN metrics}

\* Throttled with the interval taken for minutes
ThrottledMinutes(self, current_time) ==
  current_time - self.last_scan_time < ScanInterval \div 60

\* lines 161-165: the scan is skipped
Throttled(self, current_time) == current_time - self.last_scan_time < ScanInterval

\* Abandoned with new_metrics installed as far as it was built
AbandonedInstall(self, new_metrics) == new_metrics

\* lines 205-206: the exception leaves the try block before line 189, and
\* new_metrics, which holds what was merged so far, is dropped
Abandoned(self, new_metrics) == self.metrics

\* StampOfFailedScan with the time stamp taken at line 189, after the loop
StampAfterLoop(self, current_time) == self.last_scan_time

\* line 168 stands before the try block: a scan that fails has stamped
\* last_scan_time
StampOfFailedScan(self, current_time) == current_time

\* scan_directory on the generator self = [metrics, counter_state,
\* last_scan_time] at current_time; listing, list_error and unreadable are
\* what the file system answers, seed the random draws. raised tells whether
\* an exception leaves the call.
scan_directory(self, current_time, listing, list_error, unreadable, seed) ==
  IF Throttled(self, current_time)
  THEN [metrics |-> self.metrics, counter_state |-> self.counter_state,
        last_scan_time |-> self.last_scan_time, outcome |-> "throttled",
        raised |-> FALSE]
  ELSE LET built == IF list_error THEN [ok |-> FALSE, metrics |-> EmptyDict]
                    ELSE BuildCatalog(EmptyDict, listing, unreadable)
       IN  IF built.ok
           THEN [metrics |-> built.metrics,
                 counter_state |-> SeedCounters(built.metrics, self.counter_state, seed),
                 last_scan_time |-> current_time, outcome |-> "ok", raised |-> FALSE]
           ELSE [metrics |-> Abandoned(self, built.metrics),
                 counter_state |-> self.counter_state,
                 last_scan_time |-> StampOfFailedScan(self, current_time),
                 outcome |-> IF list_error THEN "list_error" ELSE "file_error",
                 raised |-> FALSE]

(***************************************************************************)
(* MetricGenerator.generate_metrics                                         *)
(* An output line is a record: kind "HELP", "TYPE", "SAMPLE" or "NONE" (the *)
(* "# No metrics found" line); key is the label group a sample line was     *)
(* generated for.                                                           *)
(***************************************************************************)
OutLine(kind, name, text, key, value) ==
  [kind |-> kind, name |-> name, text |-> text, key |-> key,
   labels |-> KeyToLabels(key), value |-> value]

\* Clamp without the clamping
NoClamp(value, lo, hi) == value

\* max(min(value, hi), lo)
Clamp(value, lo, hi) ==
  LET capped == IF value < hi THEN value ELSE hi
  IN  IF capped > lo THEN capped ELSE lo

\* CounterGroup on a store that starts a missing entry at zero
CounterGroupCreating(acc, m, key, r) ==
  LET store == IF m.name \in DOMAIN acc.counter_state THEN acc.counter_state
               ELSE Put(acc.counter_state, m.name, EmptyDict)
      current_value == IF key \in DOMAIN store[m.name] THEN store[m.name][key] ELSE 0
      increment == IF StdDevPositive(m) THEN AbsGauss(r) ELSE Uniform(IncLo, IncHi, r)
      new_value == current_value + increment
  IN  [counter_state |-> [store EXCEPT ![m.name] = Put(@, key, new_value)],
       output |-> Append(acc.output, OutLine("SAMPLE", m.name, "", key, new_value))]

\* lines 256-279: the counter path of one label group; acc = [counter_state,
\* output]
CounterGroup(acc, m, key, r) ==
  IF m.name \in DOMAIN acc.counter_state /\ key \in DOMAIN acc.counter_state[m.name]
  THEN LET current_value == acc.counter_state[m.name][key]
           increment == IF StdDevPositive(m) THEN AbsGauss(r)
                        ELSE Uniform(IncLo, IncHi, r)
           new_value == current_value + increment
       IN  [counter_state |-> [acc.counter_state EXCEPT ![m.name][key] = new_value],
            output |-> Append(acc.output, OutLine("SAMPLE", m.name, "", key, new_value))]
  ELSE acc

\* lines 280-297: the gauge path of one label group
GaugeGroup(acc, m, key, r) ==
  IF m.min_value # None /\ m.max_value # None
  THEN LET value == IF StdDevPositive(m) /\ m.mean_value # None
                    THEN Clamp(Gauss(m.mean_value[1], r), m.min_value[1], m.max_value[1])
                    ELSE Uniform(m.min_value[1], m.max_value[1], r)
       IN  [acc EXCEPT !.output = Append(@, OutLine("SAMPLE", m.name, "", key, value))]
  ELSE acc

RECURSIVE RenderGroups(_, _, _, _)
\* lines 253-297: the loop over label_groups
RenderGroups(acc, m, keys, tape) ==
  IF keys = <<>> THEN acc
  ELSE LET r == Draw(tape, <<m.name, Head(keys)>>)
           next == IF m.is_counter THEN CounterGroup(acc, m, Head(keys), r)
                   ELSE GaugeGroup(acc, m, Head(keys), r)
       IN  RenderGroups(next, m, Tail(keys), tape)

\* lines 238-297: one iteration of the loop over the metrics
RenderMetric(acc, m, tape) ==
  LET withHelp == IF m.help_text # ""
                  THEN [acc EXCEPT !.output =
                          Append(@, OutLine("HELP", m.name, m.help_text, <<>>, 0))]
                  ELSE acc
      withType == IF m.metric_type # ""
                  THEN [withHelp EXCEPT !.output =
                          Append(@, OutLine("TYPE", m.name, m.metric_type, <<>>, 0))]
                  ELSE withHelp
  IN  RenderGroups(withType, m, GroupKeys(m.samples, <<>>), tape)

RECURSIVE RenderAll(_, _, _, _)
RenderAll(acc, metrics, names, tape) ==
  IF names = <<>> THEN acc
  ELSE RenderAll(RenderMetric(acc, metrics[Head(names)], tape), metrics, Tail(names), tape)

\* sorted(self.metrics.items())
SortedNames(metrics) == SelectSeq(NameOrder, LAMBDA n : n \in DOMAIN metrics)

\* Render without the test of line 232
RenderAlways(metrics, counter_state, tape) ==
  RenderAll([counter_state |-> counter_state, output |-> <<>>],
            metrics, SortedNames(metrics), tape)

\* lines 232-299 on the catalog and the counter state the scan left
Render(metrics, counter_state, tape) ==
  IF DOMAIN metrics = {}
  THEN [counter_state |-> counter_state,
        output |-> <<OutLine("NONE", "", "No metrics found", <<>>, 0)>>]
  ELSE RenderAll([counter_state |-> counter_state, output |-> <<>>],
                 metrics, SortedNames(metrics), tape)

\* generate_metrics: scan_directory, then the rendering; tape holds the
\* random draw of every label group
generate_metrics(self, current_time, listing, list_error, unreadable, seed, tape) ==
  LET scanned == scan_directory(self, current_time, listing, list_error, unreadable, seed)
      rendered == Render(scanned.metrics, scanned.counter_state, tape)
  IN  [metrics |-> scanned.metrics, counter_state |-> rendered.counter_state,
       last_scan_time |-> scanned.last_scan_time, outcome |-> scanned.outcome,
       raised |-> scanned.raised, output |-> rendered.output]

(***************************************************************************)
(* The state: one MetricGenerator, the clock, and what the calls did        *)
(***************************************************************************)
VARIABLES
  metrics,         \* self.metrics
  counter_state,   \* self.counter_state
  last_scan_time,  \* self.last_scan_time
  now,             \* time.time()
  last,            \* the last call: its inputs, its outcome and its output
  emitted,         \* the value last emitted for every counter series
  attempted,       \* the time of the last scan that was not skipped, or None
  gone,            \* the stored metric names a scan has found missing
  pc,              \* where every request thread stands in generate_metrics
  loc              \* the local variables of every request thread

vars == <<metrics, counter_state, last_scan_time, now, last, emitted, attempted, gone,
          pc, loc>>

generator == [metrics |-> metrics, counter_state |-> counter_state,
              last_scan_time |-> last_scan_time]

\* the instants at which the clock is read: whole intervals, and one unit
\* before the second interval ends
TimePoints ==
  {t \in ScanInterval..MaxTime : t % ScanInterval = 0 \/ t = 2 * ScanInterval - 1}

NoCall == [op |-> "none", outcome |-> "none", scanned |-> "none", raised |-> FALSE,
           listing |-> <<>>, list_error |-> FALSE, unreadable |-> {}, output |-> <<>>]

Threads == 1..NumThreads

\* the locals of a thread that serves no request
NoLocals ==
  [served |-> 0, current_time |-> 0, new_metrics |-> EmptyDict, listing |-> <<>>,
   files |-> <<>>, catalog |-> EmptyDict, names |-> <<>>, samples |-> <<>>, groups |-> <<>>,
   current_value |-> 0, output |-> <<>>, raised |-> FALSE]

\* __init__ (lines 152-157)
Init ==
  /\ pc = [t \in Threads |-> "idle"]
  /\ loc = [t \in Threads |-> NoLocals]
  /\ metrics = EmptyDict
  /\ counter_state = EmptyDict
  /\ last_scan_time = 0
  /\ now = ScanInterval
  /\ last = NoCall
  /\ emitted = EmptyDict
  /\ attempted = None
  /\ gone = {}

\* what the file system can answer to one scan: nothing is read when the
\* scan is skipped, no file is opened when the listing fails
Answers ==
  IF Throttled(generator, now)
  THEN {[listing |-> <<>>, list_error |-> FALSE, unreadable |-> {}]}
  ELSE {[listing |-> <<>>, list_error |-> TRUE, unreadable |-> {}]}
       \cup {[listing |-> d, list_error |-> FALSE, unreadable |-> u] :
               d \in Dirs, u \in SUBSET PromFiles}

\* the series random.uniform is drawn for at line 202
SeedDomain(a) ==
  IF Throttled(generator, now) \/ a.list_error THEN {}
  ELSE LET built == BuildCatalog(EmptyDict, a.listing, a.unreadable).metrics
       IN  {s \in Series(built) :
              built[s[1]].is_counter /\ s[1] \notin DOMAIN counter_state}

\* the label groups whose generated value depends on the random draw
DrawDomain(catalog, store) ==
  {s \in Series(catalog) :
     LET m == catalog[s[1]]
     IN  IF m.is_counter
         THEN /\ s[1] \in DOMAIN store
              /\ s[2] \in DOMAIN store[s[1]]
              /\ (StdDevPositive(m) \/ IncLo # IncHi)
         ELSE /\ m.min_value # None
              /\ m.max_value # None
              /\ (StdDevPositive(m) \/ m.min_value # m.max_value)}

\* the sample lines of an output that belong to counter metrics
CounterLines(output, catalog) ==
  {i \in 1..Len(output) :
     output[i].kind = "SAMPLE" /\ catalog[output[i].name].is_counter}

\* emitted after a call that returned output
Emit(output, catalog) ==
  LET lines == CounterLines(output, catalog)
      series == {<<output[i].name, output[i].key>> : i \in lines}
  IN  [s \in DOMAIN emitted \cup series |->
         IF s \in series
         THEN output[CHOOSE i \in lines : <<output[i].name, output[i].key>> = s].value
         ELSE emitted[s]]

\* scanned is the outcome of the last scan that was not skipped
LastCall(op, a, res, output) ==
  [op |-> op, outcome |-> res.outcome,
   scanned |-> IF res.outcome = "throttled" THEN last.scanned ELSE res.outcome,
   raised |-> res.raised, listing |-> a.listing,
   list_error |-> a.list_error, unreadable |-> a.unreadable, output |-> output]

\* the ghost variables after a scan with result res
Ghosts(res) ==
  /\ attempted' = IF res.outcome = "throttled" THEN attempted ELSE Some(now)
  /\ gone' = gone \cup {n \in DOMAIN res.counter_state : n \notin DOMAIN res.metrics}

\* a direct call of scan_directory (line 329)
ScanDirectory ==
  \E a \in Answers :
    /\ a.unreadable \subseteq {a.listing[i] : i \in 1..Len(a.listing)}
    /\ \E seed \in [SeedDomain(a) -> Draws] :
         \E res \in {scan_directory(generator, now, a.listing, a.list_error,
                                     a.unreadable, seed)} :
             /\ metrics' = res.metrics
             /\ counter_state' = res.counter_state
             /\ last_scan_time' = res.last_scan_time
             /\ last' = LastCall("scan", a, res, <<>>)
             /\ Ghosts(res)
             /\ UNCHANGED <<now, emitted, pc, loc>>

\* a request to /metrics (lines 304-308), served alone
GenerateMetrics ==
  /\ \A n \in DOMAIN counter_state : \A k \in DOMAIN counter_state[n] :
       counter_state[n][k] <= MaxCounter
  /\ \E a \in Answers :
       /\ a.unreadable \subseteq {a.listing[i] : i \in 1..Len(a.listing)}
       /\ \E seed \in [SeedDomain(a) -> Draws] :
            \E scanned \in {scan_directory(generator, now, a.listing, a.list_error,
                                            a.unreadable, seed)} :
              \E tape \in [DrawDomain(scanned.metrics, scanned.counter_state) -> Draws] :
                \E res \in {generate_metrics(generator, now, a.listing, a.list_error,
                                              a.unreadable, seed, tape)} :
                  /\ metrics' = res.metrics
                  /\ counter_state' = res.counter_state
                  /\ last_scan_time' = res.last_scan_time
                  /\ last' = LastCall("generate", a, res, res.output)
                  /\ emitted' = Emit(res.output, res.metrics)
                  /\ Ghosts(res)
                  /\ UNCHANGED <<now, pc, loc>>

\* time passes between two calls
Tick ==
  /\ \E t \in TimePoints : t > now /\ now' = t
  /\ UNCHANGED <<metrics, counter_state, last_scan_time, last, emitted, attempted, gone,
                 pc, loc>>

Next == ScanDirectory \/ GenerateMetrics \/ Tick

Spec == Init /\ [][Next]_vars

(***************************************************************************)
(* Concurrent requests                                                      *)
(* app.run (line 332) serves every request on a thread of its own, and the  *)
(* code takes no lock: a thread runs generate_metrics statement by          *)
(* statement, and another thread may run between two statements. The        *)
(* threads start after the scan of main (line 329).                         *)
(*   pc          statement              lines                               *)
(*   check       the throttle test      161-165                             *)
(*   stamp       last_scan_time         168                                 *)
(*   list        os.listdir             171-174                             *)
(*   file        one file of the loop   175-186                             *)
(*   install     self.metrics           189                                 *)
(*   seed_start  the loop header        192                                 *)
(*   seed_name   one metric             193                                 *)
(*   seed_new    counter_state[name]    194                                 *)
(*   seed_check  one sample             197-201                             *)
(*   seed_write  the seed               202-203                             *)
(*   render      `if not self.metrics`  232-233                             *)
(*   snapshot    sorted(...)            235-237                             *)
(*   metric      one metric             238-250                             *)
(*   group       one label group        253-258, 280-297                    *)
(*   read        current_value          260                                 *)
(*   write       the new value          263-279                             *)
(*   done        return                 299                                 *)
(***************************************************************************)
Goto(t, label, locals) ==
  /\ pc' = [pc EXCEPT ![t] = label]
  /\ loc' = [loc EXCEPT ![t] = locals]

\* the shared state a step leaves alone, besides what it names
Ghostless == UNCHANGED <<last, attempted, gone, now>>

\* line 308: a request arrives
Request(t) ==
  /\ pc[t] = "idle"
  /\ loc[t].served < MaxRequests
  /\ \A n \in DOMAIN counter_state : \A k \in DOMAIN counter_state[n] :
       counter_state[n][k] <= MaxCounter
  /\ Goto(t, "check", [NoLocals EXCEPT !.served = loc[t].served + 1])
  /\ UNCHANGED <<metrics, counter_state, last_scan_time, emitted>>
  /\ Ghostless

\* lines 161-165
Check(t) ==
  /\ pc[t] = "check"
  /\ Goto(t, IF Throttled(generator, now) THEN "render" ELSE "stamp",
          [loc[t] EXCEPT !.current_time = now])
  /\ UNCHANGED <<metrics, counter_state, last_scan_time, emitted>>
  /\ Ghostless

\* line 168
Stamp(t) ==
  /\ pc[t] = "stamp"
  /\ last_scan_time' = loc[t].current_time
  /\ Goto(t, "list", loc[t])
  /\ UNCHANGED <<metrics, counter_state, emitted>>
  /\ Ghostless

\* AfterFile with line 189 inside the loop: the catalog is installed after
\* every file
AfterFileInstall(rest) == "install"

\* lines 174-189: the loop goes on while the listing names a file, and line
\* 189 follows the loop
AfterFile(rest) == IF rest = <<>> THEN "install" ELSE "file"

\* lines 171-174: the listing, or the exception that ends the scan; listing
\* keeps what os.listdir returned, files what the loop has yet to visit
List(t) ==
  /\ pc[t] = "list"
  /\ \/ Goto(t, "render", loc[t])
     \/ \E d \in Dirs :
          Goto(t, AfterFile(d),
               [loc[t] EXCEPT !.new_metrics = EmptyDict, !.listing = d, !.files = d])
  /\ UNCHANGED <<metrics, counter_state, last_scan_time, emitted>>
  /\ Ghostless

\* lines 175-186: one file of the listing; open() may fail
File(t) ==
  /\ pc[t] = "file"
  /\ LET f == Head(loc[t].files)
         rest == Tail(loc[t].files)
         after == AfterFile(rest)
     IN  IF ~IsProm(f)
         THEN Goto(t, after, [loc[t] EXCEPT !.files = rest])
         ELSE \/ Goto(t, "render", [loc[t] EXCEPT !.files = <<>>, !.listing = <<>>,
                                                  !.new_metrics = EmptyDict])
              \/ Goto(t, after,
                      [loc[t] EXCEPT !.files = rest,
                                     !.new_metrics = MergeFile(@, Parse(FileLines(f)))])
  /\ UNCHANGED <<metrics, counter_state, last_scan_time, emitted>>
  /\ Ghostless

\* line 189
Install(t) ==
  /\ pc[t] = "install"
  /\ metrics' = loc[t].new_metrics
  /\ Goto(t, "seed_start", [loc[t] EXCEPT !.new_metrics = EmptyDict, !.listing = <<>>,
                                          !.files = <<>>])
  /\ UNCHANGED <<counter_state, last_scan_time, emitted>>
  /\ Ghostless

\* line 192: the loop runs over the catalog self.metrics names now
SeedStart(t) ==
  /\ pc[t] = "seed_start"
  /\ Goto(t, "seed_name",
          [loc[t] EXCEPT !.catalog = metrics, !.names = SortedNames(metrics)])
  /\ UNCHANGED <<metrics, counter_state, last_scan_time, emitted>>
  /\ Ghostless

\* line 193
SeedName(t) ==
  /\ pc[t] = "seed_name"
  /\ IF loc[t].names = <<>>
     THEN Goto(t, "render", [loc[t] EXCEPT !.catalog = EmptyDict])
     ELSE LET n == Head(loc[t].names)
          IN  IF loc[t].catalog[n].is_counter /\ n \notin DOMAIN counter_state
              THEN Goto(t, "seed_new", loc[t])
              ELSE Goto(t, "seed_name", [loc[t] EXCEPT !.names = Tail(@)])
  /\ UNCHANGED <<metrics, counter_state, last_scan_time, emitted>>
  /\ Ghostless

\* line 194
SeedNew(t) ==
  /\ pc[t] = "seed_new"
  /\ LET n == Head(loc[t].names)
     IN  /\ counter_state' = Put(counter_state, n, EmptyDict)
         /\ Goto(t, "seed_check", [loc[t] EXCEPT !.samples = loc[t].catalog[n].samples])
  /\ UNCHANGED <<metrics, last_scan_time, emitted>>
  /\ Ghostless

\* lines 197-201
SeedCheck(t) ==
  /\ pc[t] = "seed_check"
  /\ IF loc[t].samples = <<>>
     THEN Goto(t, "seed_name", [loc[t] EXCEPT !.names = Tail(@)])
     ELSE LET n == Head(loc[t].names)
              m == loc[t].catalog[n]
              label_key == LabelsToKey(Head(loc[t].samples).labels)
          IN  IF /\ label_key \notin DOMAIN counter_state[n]
                 /\ m.min_value # None
                 /\ m.max_value # None
              THEN Goto(t, "seed_write", loc[t])
              ELSE Goto(t, "seed_check", [loc[t] EXCEPT !.samples = Tail(@)])
  /\ UNCHANGED <<metrics, counter_state, last_scan_time, emitted>>
  /\ Ghostless

\* lines 202-203
SeedWrite(t) ==
  /\ pc[t] = "seed_write"
  /\ LET n == Head(loc[t].names)
         m == loc[t].catalog[n]
         label_key == LabelsToKey(Head(loc[t].samples).labels)
     IN  \E r \in Draws :
           counter_state' =
             [counter_state EXCEPT ![n] =
                Put(@, label_key, Uniform(m.min_value[1], m.max_value[1], r))]
  /\ Goto(t, "seed_check", [loc[t] EXCEPT !.samples = Tail(@)])
  /\ UNCHANGED <<metrics, last_scan_time, emitted>>
  /\ Ghostless

\* lines 232-233
RenderStart(t) ==
  /\ pc[t] = "render"
  /\ IF DOMAIN metrics = {}
     THEN Goto(t, "done",
               [loc[t] EXCEPT !.output = <<OutLine("NONE", "", "No metrics found", <<>>, 0)>>])
     ELSE Goto(t, "snapshot", loc[t])
  /\ UNCHANGED <<metrics, counter_state, last_scan_time, emitted>>
  /\ Ghostless

\* lines 235-237: sorted() copies the items of the catalog self.metrics names
Snapshot(t) ==
  /\ pc[t] = "snapshot"
  /\ Goto(t, "metric",
          [loc[t] EXCEPT !.catalog = metrics, !.names = SortedNames(metrics)])
  /\ UNCHANGED <<metrics, counter_state, last_scan_time, emitted>>
  /\ Ghostless

\* lines 238-250, and line 299 after the last metric
Metric(t) ==
  /\ pc[t] = "metric"
  /\ IF loc[t].names = <<>>
     THEN Goto(t, "done", [loc[t] EXCEPT !.catalog = EmptyDict])
     ELSE LET m == loc[t].catalog[Head(loc[t].names)]
              helped == IF m.help_text # ""
                        THEN <<OutLine("HELP", m.name, m.help_text, <<>>, 0)>> ELSE <<>>
              typed == IF m.metric_type # ""
                       THEN <<OutLine("TYPE", m.name, m.metric_type, <<>>, 0)>> ELSE <<>>
          IN  Goto(t, "group",
                   [loc[t] EXCEPT !.output = @ \o helped \o typed,
                                  !.groups = GroupKeys(m.samples, <<>>)])
  /\ UNCHANGED <<metrics, counter_state, last_scan_time, emitted>>
  /\ Ghostless

\* lines 253-258 for a counter, lines 280-297 for another metric
Group(t) ==
  /\ pc[t] = "group"
  /\ IF loc[t].groups = <<>>
     THEN Goto(t, "metric", [loc[t] EXCEPT !.names = Tail(@)])
     ELSE LET m == loc[t].catalog[Head(loc[t].names)]
              label_key == Head(loc[t].groups)
          IN  IF m.is_counter
              THEN IF Stored(counter_state, <<m.name, label_key>>)
                   THEN Goto(t, "read", loc[t])
                   ELSE Goto(t, "group", [loc[t] EXCEPT !.groups = Tail(@)])
              ELSE \E r \in Draws :
                     Goto(t, "group",
                          [loc[t] EXCEPT
                             !.groups = Tail(@),
                             !.output = GaugeGroup([output |-> @], m, label_key, r).output])
  /\ UNCHANGED <<metrics, counter_state, last_scan_time, emitted>>
  /\ Ghostless

\* line 260; a key that is no longer there raises KeyError, which ends the
\* request
Read(t) ==
  /\ pc[t] = "read"
  /\ LET s == <<Head(loc[t].names), Head(loc[t].groups)>>
     IN  IF Stored(counter_state, s)
         THEN Goto(t, "write", [loc[t] EXCEPT !.current_value = counter_state[s[1]][s[2]]])
         ELSE Goto(t, "done", [loc[t] EXCEPT !.raised = TRUE, !.catalog = EmptyDict,
                                             !.names = <<>>, !.groups = <<>>])
  /\ UNCHANGED <<metrics, counter_state, last_scan_time, emitted>>
  /\ Ghostless

\* lines 263-279
Write(t) ==
  /\ pc[t] = "write"
  /\ LET m == loc[t].catalog[Head(loc[t].names)]
         label_key == Head(loc[t].groups)
     IN  \E r \in Draws :
           LET increment == IF StdDevPositive(m) THEN AbsGauss(r)
                            ELSE Uniform(IncLo, IncHi, r)
               new_value == loc[t].current_value + increment
           IN  /\ counter_state' =
                    [counter_state EXCEPT ![m.name] = Put(@, label_key, new_value)]
               /\ emitted' = Put(emitted, <<m.name, label_key>>, new_value)
               /\ Goto(t, "group",
                       [loc[t] EXCEPT
                          !.groups = Tail(@), !.current_value = 0,
                          !.output = Append(@, OutLine("SAMPLE", m.name, "", label_key,
                                                       new_value))])
  /\ UNCHANGED <<metrics, last_scan_time>>
  /\ Ghostless

\* line 299: the response is sent
Return(t) ==
  /\ pc[t] = "done"
  /\ Goto(t, "idle", [NoLocals EXCEPT !.served = loc[t].served])
  /\ UNCHANGED <<metrics, counter_state, last_scan_time, emitted>>
  /\ Ghostless

Step(t) ==
  \/ Request(t) \/ Check(t) \/ Stamp(t) \/ List(t) \/ File(t) \/ Install(t)
  \/ SeedStart(t) \/ SeedName(t) \/ SeedNew(t) \/ SeedCheck(t) \/ SeedWrite(t)
  \/ RenderStart(t) \/ Snapshot(t) \/ Metric(t) \/ Group(t) \/ Read(t) \/ Write(t)
  \/ Return(t)

\* main (lines 326-332): the generator after its first scan, then the
\* server; the requests arrive together, within the interval after that
\* scan or one interval later
InitConc ==
  /\ \E d \in Dirs :
       \E seed \in [Series(BuildCatalog(EmptyDict, d, {}).metrics) -> Draws] :
         \E res \in {scan_directory([metrics |-> EmptyDict, counter_state |-> EmptyDict,
                                     last_scan_time |-> 0],
                                    ScanInterval, d, FALSE, {}, seed)} :
           /\ metrics = res.metrics
           /\ counter_state = res.counter_state
           /\ last_scan_time = res.last_scan_time
  /\ now \in {ScanInterval, 2 * ScanInterval}
  /\ last = NoCall
  /\ emitted = EmptyDict
  /\ attempted = Some(ScanInterval)
  /\ gone = {}
  /\ pc = [t \in Threads |-> "idle"]
  /\ loc = [t \in Threads |-> NoLocals]

NextConc == \E t \in Threads : Step(t)

SpecConc == InitConc /\ [][NextConc]_vars

(***************************************************************************)
(* Properties of sequential calls                                           *)
(***************************************************************************)
KeyA1B2 == LabelsToKey(<<LabelA1, LabelB2>>)

KeyA2 == LabelsToKey(<<LabelA2>>)

SampleValues(m) == [i \in 1..Len(m.samples) |-> m.samples[i].value]

\* the sample lines of an output for one series
LinesOf(output, n, k) ==
  {i \in 1..Len(output) :
     output[i].kind = "SAMPLE" /\ output[i].name = n /\ output[i].key = k}

\* C1: over any sequence of calls, the stored value of a counter series
\* never decreases, the value emitted for it never decreases, and the
\* stored value is never below a value emitted before
C1_CountersNeverDecrease ==
  [][/\ \A n \in DOMAIN counter_state : \A k \in DOMAIN counter_state[n] :
          Stored(counter_state', <<n, k>>) => counter_state'[n][k] >= counter_state[n][k]
     /\ \A s \in DOMAIN emitted : emitted'[s] >= emitted[s]
     /\ \A s \in DOMAIN emitted' :
          Stored(counter_state', s) /\ counter_state'[s[1]][s[2]] >= emitted'[s]]_vars

\* a series seeded from a.prom alone has reached 4, which takes two calls
\* or more, the last one with an un-throttled rescan at a later time
C1_Witness ==
  /\ last.op = "generate"
  /\ last.outcome = "ok"
  /\ now >= 2 * ScanInterval
  /\ "req" \in DOMAIN counter_state
  /\ DOMAIN counter_state["req"] = {KeyA1B2}
  /\ <<"req", KeyA1B2>> \in DOMAIN emitted
  /\ emitted[<<"req", KeyA1B2>>] = 4

\* C3: an entry of the counter state is never removed, and a call of
\* scan_directory, whatever its outcome, leaves every value unchanged
C3_EntriesSurviveScans ==
  [][\A n \in DOMAIN counter_state : \A k \in DOMAIN counter_state[n] :
       /\ Stored(counter_state', <<n, k>>)
       /\ last'.op = "scan" => counter_state'[n][k] = counter_state[n][k]]_vars

\* req was missing from one scanned catalog, a later scan has brought it
\* back, and its advanced entry is still there
C3_Witness ==
  /\ last.op = "scan"
  /\ last.outcome = "ok"
  /\ "req" \in gone
  /\ "req" \in DOMAIN metrics
  /\ <<"req", KeyA1B2>> \in DOMAIN emitted
  /\ Stored(counter_state, <<"req", KeyA1B2>>)
  /\ counter_state["req"][KeyA1B2] = emitted[<<"req", KeyA1B2>>]

\* C4: after a successful scan every counter metric of the catalog has an
\* entry for every label key of its samples
C4_EveryLabelKeySeeded ==
  last.outcome = "ok" =>
    \A n \in DOMAIN metrics :
      metrics[n].is_counter =>
        \A k \in KeySet(metrics[n]) : Stored(counter_state, <<n, k>>)

\* C5: a call of generate_metrics emits exactly one sample line for every
\* label key of every metric of the catalog that has samples
C5_OneLinePerLabelKey ==
  last.op = "generate" =>
    \A n \in DOMAIN metrics : \A k \in KeySet(metrics[n]) :
      Cardinality(LinesOf(last.output, n, k)) = 1

\* C6: a value emitted for a metric that is no counter lies between the
\* smallest and the largest sample of the metric in the scanned corpus
C6_GaugeWithinObservedRange ==
  last.op = "generate" =>
    \A i \in 1..Len(last.output) :
      (last.output[i].kind = "SAMPLE" /\ ~metrics[last.output[i].name].is_counter) =>
        LET values == SampleValues(metrics[last.output[i].name])
        IN  /\ SeqMin(values) <= last.output[i].value
            /\ last.output[i].value <= SeqMax(values)

\* one output holds a line of the normal branch, clamped to the largest
\* value of the statistics, and a line of the uniform branch
C6_Witness ==
  /\ last.op = "generate"
  /\ \E i, j \in 1..Len(last.output) :
       /\ last.output[i].kind = "SAMPLE"
       /\ ~metrics[last.output[i].name].is_counter
       /\ StdDevPositive(metrics[last.output[i].name])
       /\ last.output[i].value = metrics[last.output[i].name].max_value[1]
       /\ last.output[j].kind = "SAMPLE"
       /\ ~metrics[last.output[j].name].is_counter
       /\ ~StdDevPositive(metrics[last.output[j].name])

\* C7: a call made less than ScanInterval after the last scan that was not
\* skipped leaves the catalog and the counter state as they are (the
\* rendering of generate_metrics advances values, and adds or removes none)
C7_ThrottledRefreshIsNoOp ==
  [][(attempted # None /\ now - attempted[1] < ScanInterval) =>
       /\ metrics' = metrics
       /\ last_scan_time' = last_scan_time
       /\ DOMAIN counter_state' = DOMAIN counter_state
       /\ \A n \in DOMAIN counter_state :
            DOMAIN counter_state'[n] = DOMAIN counter_state[n]
       /\ last'.op = "scan" => counter_state' = counter_state]_vars

\* a direct call one unit before the interval ends was skipped
C7_Witness ==
  /\ last.op = "scan"
  /\ last.outcome = "throttled"
  /\ attempted # None
  /\ now - attempted[1] = ScanInterval - 1
  /\ DOMAIN metrics # {}

\* C8: after a successful scan the statistics of every metric with samples
\* are those of its merged samples
C8_StatisticsOfMergedSamples ==
  last.outcome = "ok" =>
    \A n \in DOMAIN metrics :
      metrics[n].samples # <<>> =>
        LET values == SampleValues(metrics[n])
        IN  /\ metrics[n].min_value = Some(SeqMin(values))
            /\ metrics[n].max_value = Some(SeqMax(values))
            /\ metrics[n].mean_value # None
            /\ RatEq(metrics[n].mean_value[1], Mean(values))
            /\ metrics[n].std_dev # None
            /\ RatEq(metrics[n].std_dev[1],
                     IF Len(values) > 1 THEN Variance(values) ELSE <<0, 1>>)

\* C9: after a scan in which a file could not be opened, the catalog holds
\* the metrics and the samples of every other .prom file of the listing
C9_UnreadableFileSkipped ==
  last.outcome = "file_error" =>
    \A i \in 1..Len(last.listing) :
      (IsProm(last.listing[i]) /\ last.listing[i] \notin last.unreadable) =>
        LET file_metrics == Parse(FileLines(last.listing[i]))
        IN  \A n \in DOMAIN file_metrics :
              /\ n \in DOMAIN metrics
              /\ \A j \in 1..Len(file_metrics[n].samples) :
                   \E k \in 1..Len(metrics[n].samples) :
                     metrics[n].samples[k] = file_metrics[n].samples[j]

\* C10: a call in which the listing fails raises nothing and leaves the
\* catalog and the counter state as they are; generate_metrics then renders
\* the catalog it found
C10_ListingFailureKeepsCatalog ==
  [][(last'.outcome = "list_error" /\ last' # last) =>
       /\ ~last'.raised
       /\ metrics' = metrics
       /\ last'.op = "scan" => counter_state' = counter_state
       /\ last'.op = "generate" =>
            \E tape \in [DrawDomain(metrics, counter_state) -> Draws] :
              /\ last'.output = Render(metrics, counter_state, tape).output
              /\ counter_state' = Render(metrics, counter_state, tape).counter_state]_vars

\* a request whose listing failed has rendered sample lines
C10_Witness ==
  /\ last.op = "generate"
  /\ last.outcome = "list_error"
  /\ DOMAIN metrics # {}
  /\ \E i \in 1..Len(last.output) : last.output[i].kind = "SAMPLE"

(***************************************************************************)
(* Properties of concurrent requests                                        *)
(***************************************************************************)
\* C2: when requests run concurrently, the value a request stores for a
\* series (line 272) is not below the value the store holds at that moment:
\* no other request has advanced the series since the request read it
C2_ReadModifyWriteIndivisible ==
  [][\A t \in Threads :
       (pc[t] = "write" /\ pc'[t] = "group") =>
         LET n == Head(loc[t].names)
             k == Head(loc[t].groups)
         IN  Stored(counter_state, <<n, k>>) =>
               counter_state'[n][k] >= counter_state[n][k]]_vars

\* the catalog a scan of the listing d builds when every file can be read
CompleteCatalog(d) == BuildCatalog(EmptyDict, d, {}).metrics

\* the statements of a request that read the snapshot of the catalog
Rendering == {"metric", "group", "read", "write"}

\* C11: the catalog changes only at line 189, to the catalog built from the
\* whole listing of the scanning request; a request takes its snapshot of the
\* catalog in one read and renders from that snapshot, which no scan changes
C11_CatalogReplacedWhole ==
  [][/\ metrics' # metrics =>
          \E t \in Threads :
            /\ pc[t] = "install"
            /\ pc'[t] = "seed_start"
            /\ metrics' = CompleteCatalog(loc[t].listing)
     /\ \A t \in Threads :
          /\ (pc[t] = "snapshot" /\ pc'[t] = "metric") => loc'[t].catalog = metrics
          /\ (pc[t] \in Rendering /\ pc'[t] \in Rendering) =>
               loc'[t].catalog = loc[t].catalog]_vars

\* a request renders the old catalog while another request, which has merged
\* the first of its two files, builds the new one
C11_Witness ==
  \E t, u \in Threads :
    /\ pc[t] = "file"
    /\ Len(loc[t].files) = 1
    /\ Len(loc[t].listing) = 2
    /\ loc[t].new_metrics # EmptyDict
    /\ loc[t].new_metrics # CompleteCatalog(loc[t].listing)
    /\ pc[u] = "group"
    /\ loc[u].catalog = metrics
    /\ DOMAIN metrics # {}

(***************************************************************************)
(* Further properties of sequential calls                                   *)
(***************************************************************************)
\* C12: an entry that a call of scan_directory creates holds a value between
\* min_value and max_value of its metric, which lie between the smallest and
\* the largest sample the catalog holds for the metric
C12_SeedWithinObservedRange ==
  [][last'.op = "scan" =>
       \A n \in DOMAIN counter_state' : \A k \in DOMAIN counter_state'[n] :
         ~Stored(counter_state, <<n, k>>) =>
           /\ n \in DOMAIN metrics'
           /\ metrics'[n].samples # <<>>
           /\ metrics'[n].min_value # None
           /\ metrics'[n].max_value # None
           /\ SeqMin(SampleValues(metrics'[n])) <= metrics'[n].min_value[1]
           /\ metrics'[n].min_value[1] <= counter_state'[n][k]
           /\ counter_state'[n][k] <= metrics'[n].max_value[1]
           /\ metrics'[n].max_value[1] <= SeqMax(SampleValues(metrics'[n]))]_vars

\* a scan of a.prom, whose samples of req are 1 and 2, has seeded the series
\* at 2, and no request has advanced it yet
C12_Witness ==
  /\ last.op = "scan"
  /\ last.outcome = "ok"
  /\ last.listing = <<1>>
  /\ emitted = EmptyDict
  /\ Stored(counter_state, <<"req", KeyA1B2>>)
  /\ counter_state["req"][KeyA1B2] = 2

RECURSIVE AllLines(_)
\* the lines of the .prom files of a listing in the order the scan reads them
AllLines(listing) ==
  IF listing = <<>> THEN <<>>
  ELSE (IF IsProm(Head(listing)) THEN FileLines(Head(listing)) ELSE <<>>)
       \o AllLines(Tail(listing))

\* the text of the last line of the given kind for the metric n, "" when
\* there is none; a line without text is no HELP or TYPE line (lines 79, 94)
LastText(kind, n, lines) ==
  LET hits == {i \in 1..Len(lines) :
                 lines[i].kind = kind /\ lines[i].name = n /\ lines[i].text # ""}
  IN  IF hits = {} THEN ""
      ELSE lines[CHOOSE i \in hits : \A j \in hits : j <= i].text

\* C13: after a successful scan the help text and the type of every metric
\* are those of the last HELP and the last TYPE line read for its name in
\* the files of the listing, and the metric is a counter accordingly
C13_LastMetadataWins ==
  last.outcome = "ok" =>
    \A n \in DOMAIN metrics :
      LET lines == AllLines(last.listing)
      IN  /\ metrics[n].help_text = LastText("HELP", n, lines)
          /\ metrics[n].metric_type = LastText("TYPE", n, lines)
          /\ metrics[n].is_counter = (Lower(LastText("TYPE", n, lines)) = "counter")

\* C14: the output of generate_metrics holds no line, of any kind, for a
\* metric of the catalog that has no sample
C14_SampleLessMetricSkipped ==
  last.op = "generate" =>
    \A n \in DOMAIN metrics :
      metrics[n].samples = <<>> =>
        \A i \in 1..Len(last.output) : last.output[i].name # n

\* C15: a call of generate_metrics that finds the catalog empty after its
\* scan returns the one line "# No metrics found"; the catalog is the one the
\* scan left, and the counter state is as it was before the call (a scan
\* that installs an empty catalog seeds nothing)
C15_EmptyCatalogMarker ==
  [][(last'.op = "generate" /\ now' = now /\ DOMAIN metrics' = {}) =>
       /\ last'.output = <<OutLine("NONE", "", "No metrics found", <<>>, 0)>>
       /\ metrics' = scan_directory(generator, now, last'.listing, last'.list_error,
                                    last'.unreadable, EmptyDict).metrics
       /\ counter_state' = counter_state
       /\ emitted' = emitted]_vars

\* a request has found the directory empty after counters had been stored
C15_Witness ==
  /\ last.op = "generate"
  /\ last.outcome = "ok"
  /\ DOMAIN metrics = {}
  /\ DOMAIN counter_state # {}
  /\ Len(last.output) = 1
  /\ last.output[1].kind = "NONE"

\* the increments lines 262-268 can draw for the counter metric m
Increments(m) ==
  IF StdDevPositive(m) THEN {AbsGauss(r) : r \in Draws}
  ELSE {Uniform(IncLo, IncHi, r) : r \in Draws}

\* the values line 202 can draw for an entry of the metric m
Seeds(m) == {Uniform(m.min_value[1], m.max_value[1], r) : r \in Draws}

\* C19: a call of generate_metrics leaves the catalog as its scan built it,
\* creates and removes no entry beyond those its scan created, adds one
\* increment to the entry of every stored counter series of the catalog and
\* emits that value on one line, and leaves every other entry as it was
C19_GenerateChangesCountersOnly ==
  [][(last'.op = "generate" /\ now' = now) =>
       LET scanned == scan_directory(generator, now, last'.listing, last'.list_error,
                                     last'.unreadable, EmptyDict)
       IN  /\ metrics' = scanned.metrics
           /\ last_scan_time' = scanned.last_scan_time
           /\ DOMAIN counter_state' = DOMAIN scanned.counter_state
           /\ \A n \in DOMAIN counter_state' :
                /\ DOMAIN counter_state'[n] = DOMAIN scanned.counter_state[n]
                /\ \A k \in DOMAIN counter_state'[n] :
                     IF /\ n \in DOMAIN metrics'
                        /\ metrics'[n].is_counter
                        /\ k \in KeySet(metrics'[n])
                     THEN /\ Cardinality(LinesOf(last'.output, n, k)) = 1
                          /\ \A i \in LinesOf(last'.output, n, k) :
                               last'.output[i].value = counter_state'[n][k]
                          /\ \E before \in IF Stored(counter_state, <<n, k>>)
                                            THEN {counter_state[n][k]}
                                            ELSE Seeds(metrics'[n]) :
                               counter_state'[n][k] - before \in Increments(metrics'[n])
                     ELSE /\ Stored(counter_state, <<n, k>>)
                          /\ counter_state'[n][k] = counter_state[n][k]]_vars

\* a request has advanced and emitted the series a=2 of the catalog, and the
\* catalog, read from b.prom alone, no longer holds the stored series
\* a=1,b=2
C19_Witness ==
  /\ last.op = "generate"
  /\ "req" \in DOMAIN metrics
  /\ KeySet(metrics["req"]) = {KeyA2}
  /\ Stored(counter_state, <<"req", KeyA1B2>>)
  /\ Stored(counter_state, <<"req", KeyA2>>)
  /\ Cardinality(LinesOf(last.output, "req", KeyA2)) = 1
  /\ LinesOf(last.output, "req", KeyA1B2) = {}

\* the outcomes of a scan that an exception ended
Failures == {"list_error", "file_error"}

\* C20: after a scan that failed, a call made less than ScanInterval after
\* that scan is skipped and changes neither the catalog nor the time stamp,
\* and a call made ScanInterval or more after it scans again
C20_FailedScanNotRetried ==
  [][(/\ last.scanned \in Failures
      /\ attempted # None
      /\ last'.op \in {"scan", "generate"}
      /\ now' = now) =>
       IF now - attempted[1] < ScanInterval
       THEN /\ last'.outcome = "throttled"
            /\ last'.scanned = last.scanned
            /\ attempted' = attempted
            /\ metrics' = metrics
            /\ last_scan_time' = last_scan_time
            /\ DOMAIN counter_state' = DOMAIN counter_state
            /\ last'.op = "scan" => counter_state' = counter_state
       ELSE /\ last'.outcome # "throttled"
            /\ attempted' = Some(now)
            /\ last_scan_time' = now]_vars

\* a file could not be opened in the scan at 60, and the call at 119 was
\* skipped
C20_Witness ==
  /\ last.scanned = "file_error"
  /\ last.outcome = "throttled"
  /\ last.op = "generate"
  /\ attempted = Some(ScanInterval)
  /\ now = 2 * ScanInterval - 1
  /\ last_scan_time = ScanInterval

(***************************************************************************)
(* Label keys on their own: _labels_to_key and _key_to_labels applied to     *)
(* the label sets the parser can produce. The pattern of line 126 takes a   *)
(* name of letters, digits and '_' and, as the value, any characters up to  *)
(* the next '"'. A behaviour is one label set taken to its key and back.    *)
(***************************************************************************)
LabelNames == {<<"a">>, <<"b">>}

\* the characters of a label value: a digit and the two separators of a key
ValueChars == {"1", ",", "="}

LabelValues == UNION {[1..k -> ValueChars] : k \in 0..MaxValueLen}

\* the labels dicts: sequences of pairs with distinct names
LabelSets ==
  {L \in UNION {[1..n -> LabelNames \X LabelValues] : n \in 0..MaxLabels} :
     \A i, j \in 1..Len(L) : i # j => L[i][1] # L[j][1]}

\* the same pairs written in every order
Writings(L) == {[i \in 1..Len(L) |-> L[f[i]]] : f \in Permutations(1..Len(L))}

\* a labels dict as the set of its pairs
PairSet(L) == {L[i] : i \in 1..Len(L)}

\* _labels_to_key on a labels dict and on another writing of it, and the
\* grouping (lines 245-250) and seeding (lines 196-203) of two samples that
\* carry them
LabelsToKeyCall ==
  /\ last.op = "none"
  /\ \E L \in LabelSets : \E P \in Writings(L) :
       LET samples == <<MetricSample(1, L), MetricSample(2, P)>>
       IN  last' = [op |-> "_labels_to_key", labels |-> L, written |-> P,
                    key |-> LabelsToKey(L), key_written |-> LabelsToKey(P),
                    groups |-> GroupKeys(samples, <<>>),
                    entries |-> DOMAIN SeedMetric(MetricDefinition("req", "counter", "",
                                                                   samples), EmptyDict),
                    back |-> <<>>, outcome |-> "none", scanned |-> "none"]
  /\ UNCHANGED <<metrics, counter_state, last_scan_time, now, emitted, attempted, gone,
                 pc, loc>>

\* _key_to_labels on the key of the last call (line 254)
KeyToLabelsCall ==
  /\ last.op = "_labels_to_key"
  /\ last' = [last EXCEPT !.op = "_key_to_labels", !.back = KeyToLabels(last.key)]
  /\ UNCHANGED <<metrics, counter_state, last_scan_time, now, emitted, attempted, gone,
                 pc, loc>>

NextKeys == LabelsToKeyCall \/ KeyToLabelsCall

SpecKeys == Init /\ [][NextKeys]_vars

\* C16: two writings of the same name-value pairs have the same label key,
\* so that two samples that carry them form one label group and one entry
\* of the counter state
C16_LabelKeyOrderIndependent ==
  (last.op \in {"_labels_to_key", "_key_to_labels"}
     /\ PairSet(last.labels) = PairSet(last.written)) =>
    /\ last.key = last.key_written
    /\ last.groups = <<last.key>>
    /\ last.entries = {last.key}

\* two labels were written in the two orders
C16_Witness ==
  /\ last.op = "_labels_to_key"
  /\ Len(last.labels) = 2
  /\ last.written # last.labels
  /\ last.key = last.key_written
  /\ last.key # <<>>

\* C17: _key_to_labels gives back the name-value pairs of the labels dict
\* that _labels_to_key made the key of, whatever characters the values hold
C17_LabelsRoundTrip ==
  last.op = "_key_to_labels" => PairSet(last.back) = PairSet(last.labels)

(***************************************************************************)
(* Further properties of concurrent requests                                *)
(***************************************************************************)
\* the statements of scan_directory that write the counter state
Seeding == {"seed_new", "seed_write"}

\* C18: when requests scan concurrently, an entry of the counter state, once
\* created, stays in the store, and no statement of a scan changes its value
C18_EntriesCreatedOnce ==
  [][\A n \in DOMAIN counter_state : \A k \in DOMAIN counter_state[n] :
       /\ Stored(counter_state', <<n, k>>)
       /\ (\E t \in Threads : pc[t] \in Seeding /\ pc'[t] # pc[t]) =>
            counter_state'[n][k] = counter_state[n][k]]_vars

====
